---------------------------- MODULE Spec2Model ----------------------------
(***************************************************************************)
(* Model of the pull-request review webhook.                               *)
(*                                                                         *)
(* The repository holds two builds of the handler:                         *)
(*   "current": src/unnamed/part_000 with src/src/services/                *)
(*              azureDevOpsService.ts and codeReviewService.ts 1-124;      *)
(*   "earlier": src/src/functions/pullRequestTrigger.ts with               *)
(*              codeReviewService.ts 126-286; its repository client        *)
(*              (thread fetch, details fetch, four-argument post) is not   *)
(*              among the sources and follows the written contract.        *)
(* One state is: the comment threads the repository provider holds for     *)
(* the pull request, and for every webhook delivery the position of its    *)
(* handler, its locals, its response and the calls it has issued.          *)
(***************************************************************************)
EXTENDS Naturals, Integers, Sequences, FiniteSets, TLC

\* ------------------------------------------------------------------ bounds
MaxThreads == 2   \* comment threads on the pull request before any delivery
MaxFiles == 2     \* change entries of the latest iteration

\* -------------------------------------------------------------- deliveries
Deliveries == {1, 2}
Variants == {"current", "earlier"}

\* ------------------------------------------------------- comment threads
\* GitInterfaces.CommentType: text, codeChange and system comments.
CommentTypes == {"text", "codeChange", "system"}

Comment(t, del, c) == [commentType |-> t, isDeleted |-> del, content |-> c]
Thread(sys, cs) == [systemProperty |-> sys, comments |-> cs]

\* The threads a pull request can carry when a delivery arrives.
ThreadShapes ==
  { Thread(TRUE,  << Comment("text", FALSE, "reply") >>),
    Thread(FALSE, << Comment("system", FALSE, "status update") >>),
    Thread(FALSE, << Comment("text", FALSE, "looks good") >>),
    Thread(FALSE, << Comment("text", TRUE, "looks good") >>),
    Thread(FALSE, << Comment("text", FALSE, "") >>),
    Thread(FALSE, << Comment("codeChange", FALSE, "pushed 1 commit") >>),
    Thread(FALSE, << >>) }

SeqsUpTo(S, n) == UNION { [1..k -> S] : k \in 0..n }

ThreadLists == SeqsUpTo(ThreadShapes, MaxThreads)

RECURSIVE Flatten(_)
Flatten(ss) == IF ss = << >> THEN << >> ELSE Head(ss) \o Flatten(Tail(ss))

\* Every comment of every thread, in thread order.
AllComments(ths) == Flatten([i \in 1..Len(ths) |-> ths[i].comments])

\* azureDevOpsService.ts 460-483: the comments of one thread that are kept.
KeptComment(c) ==
  /\ c.commentType # "system"
  /\ ~(c.isDeleted \/ c.content = "")

\* azureDevOpsService.ts 444-484: the loop over the threads.
RECURSIVE GetPullRequestComments(_)
GetPullRequestComments(ths) ==
  IF ths = << >> THEN << >>
  ELSE LET th == Head(ths)
           rest == GetPullRequestComments(Tail(ths))
       IN  IF th.systemProperty THEN rest
           ELSE IF Len(th.comments) = 0 THEN rest
           ELSE SelectSeq(th.comments, KeptComment) \o rest

\* part_000 58: const hasTextComments = comments.length > 0
HasTextCommentsCurrent(ths) == Len(GetPullRequestComments(ths)) > 0

\* pullRequestTrigger.ts 58-65
HasTextCommentsEarlier(ths) ==
  \E i \in 1..Len(ths) :
    \E j \in 1..Len(ths[i].comments) :
      /\ ths[i].comments[j].commentType = "text"
      /\ ths[i].comments[j].isDeleted = FALSE

HasTextComments(v, ths) ==
  IF v = "current" THEN HasTextCommentsCurrent(ths) ELSE HasTextCommentsEarlier(ths)


\* --------------------------------------------------------- changed files
NoPath == "<no path>"

Entry(p, e, t) == [path |-> p, ext |-> e, changeType |-> t]

\* The change entries the provider can report for the latest iteration.
FileShapes ==
  { Entry("a.ts", ".ts", "edit"),
    Entry("b.md", ".md", "add"),
    Entry("yarn.lock", ".lock", "edit"),
    Entry("old.ts", ".ts", "delete") }

EntryLists == SeqsUpTo(FileShapes, MaxFiles)

\* azureDevOpsService.ts 42-128 (the extensions the model's paths use).
LANGUAGE_EXTENSIONS ==
  [e \in {".ts", ".md", ".js", ".json"} |->
     CASE e = ".ts" -> "TypeScript"
       [] e = ".md" -> "Markdown"
       [] e = ".js" -> "JavaScript"
       [] e = ".json" -> "JSON"]

\* azureDevOpsService.ts 135-152
identifyFileLanguage(entry) ==
  IF entry.path = NoPath
  THEN [language |-> "null", isProgrammingFile |-> FALSE]
  ELSE IF entry.ext \in DOMAIN LANGUAGE_EXTENSIONS
       THEN [language |-> LANGUAGE_EXTENSIONS[entry.ext], isProgrammingFile |-> TRUE]
       ELSE [language |-> "null", isProgrammingFile |-> FALSE]

BlobOf(entry) == "blob of " \o entry.path

\* Variation: the content is requested whatever the change kind.
FetchesBlobAlways(entry) ==
  /\ entry.path # NoPath
  /\ identifyFileLanguage(entry).isProgrammingFile

\* azureDevOpsService.ts 343: a blob is requested for this entry.
FetchesBlob(entry) ==
  /\ entry.path # NoPath
  /\ identifyFileLanguage(entry).isProgrammingFile
  /\ entry.changeType # "delete"

\* The indices of `entries` for which a blob request is issued.
BlobRequests(entries) == { i \in 1..Len(entries) : FetchesBlob(entries[i]) }

\* azureDevOpsService.ts 326-376: `failed` holds the indices whose blob
\* request throws.
RECURSIVE ChangesFrom(_, _, _)
ChangesFrom(entries, failed, i) ==
  IF i > Len(entries) THEN << >>
  ELSE LET change == entries[i]
           rest == ChangesFrom(entries, failed, i + 1)
       IN  IF change.path = NoPath THEN rest
           ELSE IF ~identifyFileLanguage(change).isProgrammingFile THEN rest
           ELSE IF FetchesBlob(change) /\ i \in failed THEN rest
           ELSE << [fileName |-> change.path,
                    changeContent |-> IF FetchesBlob(change) THEN BlobOf(change) ELSE "",
                    changeType |-> change.changeType,
                    language |-> identifyFileLanguage(change).language] >> \o rest

GetPullRequestChanges(entries, failed) == ChangesFrom(entries, failed, 1)

\* The earlier build's getPullRequestDetails: one change per entry, with no
\* content and an error marker when the content request failed.
RECURSIVE DetailsFrom(_, _, _)
DetailsFrom(entries, failed, i) ==
  IF i > Len(entries) THEN << >>
  ELSE LET change == entries[i]
           rest == DetailsFrom(entries, failed, i + 1)
       IN  IF change.path = NoPath THEN rest
           ELSE << [path |-> change.path,
                    content |->
                      IF change.changeType = "delete" \/ i \in failed
                      THEN "null" ELSE BlobOf(change),
                    changeType |-> change.changeType,
                    error |-> (change.changeType # "delete" /\ i \in failed)] >> \o rest

GetPullRequestDetails(entries, failed) == DetailsFrom(entries, failed, 1)

\* The indices whose content the earlier build requests.
DetailRequests(entries) ==
  { i \in 1..Len(entries) :
      entries[i].path # NoPath /\ entries[i].changeType # "delete" }

\* ---------------------------------------------------- completion provider
ReviewBody == "## Overall Assessment"
NoContentText == "Error: No review content generated"
ErrorReport == "# Code Review Error"

\* What one POST to the completion endpoint can come to.
LlmOutcomes ==
  { "ok",               \* 200, choices[0].message.content is the review
    "networkError",     \* axios rejects: no response
    "non2xx",           \* axios rejects: status outside 2xx
    "status2xxNot200",  \* resolved with a 2xx status other than 200
    "malformedBody",    \* 200, but the body has no choices list
    "emptyChoices",     \* 200, choices = []
    "emptyContent" }    \* 200, choices[0] without content

LlmFailures == LlmOutcomes \ {"ok"}

\* codeReviewService.ts 109-123
ReviewTextCurrent(o) == IF o = "ok" THEN ReviewBody ELSE ""

\* codeReviewService.ts 271-285
ReviewTextEarlier(o) ==
  CASE o = "ok" -> ReviewBody
    [] o \in {"emptyChoices", "emptyContent"} -> NoContentText
    [] OTHER -> ErrorReport

ReviewText(v, o) == IF v = "current" THEN ReviewTextCurrent(o) ELSE ReviewTextEarlier(o)

\* Variation: the early return for an empty list is missing.
SkipsCompletionNever(changes) == FALSE

\* codeReviewService.ts 68-70 and 235-237: no request for an empty list.
SkipsCompletion(changes) == Len(changes) = 0

\* Variation: the catch block rethrows.
DoCodeReviewRethrows(o) == o \in LlmFailures

\* codeReviewService.ts 117-123 and 279-285: the catch block returns, so
\* nothing is raised to the handler.
DoCodeReviewRaises(o) == FALSE

\* ------------------------------------------------------------- the handler
CreatedEvent == "git.pullrequest.created"

Payload(j, e, r, id, repo) ==
  [json |-> j, eventType |-> e, resource |-> r, pullRequestId |-> id, repositoryId |-> repo]

\* The request bodies a delivery can carry: not JSON; another event, with
\* or without a resource; a creation event whose resource lacks the
\* repository or project object; a creation event with or without the
\* pull-request ID and the repository ID.
Payloads ==
  { Payload(FALSE, "none", FALSE, FALSE, FALSE),
    Payload(TRUE, "git.push", TRUE, TRUE, TRUE),
    Payload(TRUE, "git.push", FALSE, FALSE, FALSE),
    Payload(TRUE, CreatedEvent, FALSE, FALSE, FALSE) }
  \cup { Payload(TRUE, CreatedEvent, TRUE, id, repo) : id \in BOOLEAN, repo \in BOOLEAN }

NoPayload == Payload(FALSE, "unread", FALSE, FALSE, FALSE)

\* Variation: the event-type test lets every parsed event through.
IsCreationEventAny(p) == p.json

\* part_000 39, pullRequestTrigger.ts 39
IsCreationEvent(p) == p.eventType = CreatedEvent

\* Variation: the test on the review text is inverted.
PublishDecisionInverted(codeReviewResult) == codeReviewResult = ""

\* Variation: the review text is posted without a test.
PublishDecisionAlways(codeReviewResult) == TRUE

\* part_000 77, pullRequestTrigger.ts 86
PublishDecision(codeReviewResult) == codeReviewResult # ""

\* Response bodies.
Ignored == "Event ignored - not a pull request creation event"
SkippedComments == "Pull request already has text comments, skipping code review"
Completed == "Code review completed and added as a comment"
NoReview == "No changes to review"
ErrorBody == "Error processing pull request"

CallNames ==
  { "getPullRequest", "getThreads", "getIterations", "getBlobContent",
    "doCodeReview", "completion", "addComment", "createThread" }

ZeroCalls == [c \in CallNames |-> 0]


\* Variation: the test for an empty comment is missing.
EmptyCommentNever(content) == FALSE

\* azureDevOpsService.ts 545-547: nothing is written for an empty comment.
EmptyComment(content) == content = ""

\* Variation: the review is posted as a system comment.
ReviewThreadSystem(text) == Thread(FALSE, << Comment("system", FALSE, text) >>)

\* The thread createThread leaves on the pull request
\* (azureDevOpsService.ts 581-588): one text comment, not deleted.
ReviewThread(text) == Thread(FALSE, << Comment("text", FALSE, text) >>)

\* Variation: a review that is already on the pull request is not added again.
CreateThreadOnce(ths, text) ==
  IF \E i \in 1..Len(ths) : ths[i] = ReviewThread(text)
  THEN ths ELSE Append(ths, ReviewThread(text))

\* azureDevOpsService.ts 610-615: every successful createThread adds a thread.
CreateThread(ths, text) == Append(ths, ReviewThread(text))

VARIABLES
  threads,           \* provider: the comment threads of the pull request
  threads0,          \* the threads before any delivery (history)
  variant,           \* the build that is deployed
  pc,                \* per delivery: the await the handler stands at
  payload,           \* per delivery: the request body, once read
  pullRequest,       \* per delivery: what getPullRequest returned
  observed,          \* per delivery: the threads it fetched
  hasTextComments,   \* per delivery: the eligibility decision
  entries,           \* per delivery: the change entries the provider reported
  changes,           \* per delivery: the FileChange list
  llmOutcome,        \* per delivery: what the completion request came to
  codeReviewResult,  \* per delivery: what doCodeReview returned
  response,          \* per delivery: the HTTP response
  calls,             \* per delivery: calls issued, by name
  history            \* per delivery: which requests failed, what the post returned

vars ==
  << threads, threads0, variant, pc, payload, pullRequest, observed,
     hasTextComments, entries, changes, llmOutcome, codeReviewResult,
     response, calls, history >>

NoHistory == [failed |-> {}, failures |-> {}, posted |-> "none"]

\* The provider request `name` of delivery d has failed.
Failure(d, name) ==
  history' = [history EXCEPT ![d].failures = @ \cup {name}]

NoResponse == [status |-> 0, body |-> "", cause |-> "none"]

Respond(d, st, b, c) ==
  /\ pc' = [pc EXCEPT ![d] = "done"]
  /\ response' = [response EXCEPT ![d] = [status |-> st, body |-> b, cause |-> c]]

\* part_000 89-96, pullRequestTrigger.ts 98-105: the catch block.
Catch(d, c) == Respond(d, 500, ErrorBody, c)

Goto(d, step) ==
  /\ pc' = [pc EXCEPT ![d] = step]
  /\ UNCHANGED response

Call(d, names) ==
  calls' = [calls EXCEPT ![d] =
              [c \in CallNames |-> IF c \in names THEN @[c] + 1 ELSE @[c]]]

InitLocals ==
  /\ pc = [d \in Deliveries |-> "start"]
  /\ payload = [d \in Deliveries |-> NoPayload]
  /\ pullRequest = [d \in Deliveries |-> "unfetched"]
  /\ observed = [d \in Deliveries |-> [fetched |-> FALSE, threads |-> << >>]]
  /\ hasTextComments = [d \in Deliveries |-> FALSE]
  /\ entries = [d \in Deliveries |-> << >>]
  /\ changes = [d \in Deliveries |-> << >>]
  /\ llmOutcome = [d \in Deliveries |-> "notCalled"]
  /\ codeReviewResult = [d \in Deliveries |-> ""]
  /\ response = [d \in Deliveries |-> NoResponse]
  /\ calls = [d \in Deliveries |-> ZeroCalls]
  /\ history = [d \in Deliveries |-> NoHistory]

Init ==
  /\ threads \in ThreadLists
  /\ threads0 = threads
  /\ variant \in Variants
  /\ InitLocals

\* part_000 34-51, pullRequestTrigger.ts 34-51
Receive(d, P) ==
  /\ pc[d] = "start"
  /\ \E p \in P :
       /\ payload' = [payload EXCEPT ![d] = p]
       /\ IF ~p.json THEN Catch(d, "InvalidPayload")
          ELSE IF ~IsCreationEvent(p) THEN Respond(d, 200, Ignored, "none")
          ELSE IF ~p.resource THEN Catch(d, "InvalidPayload")
          ELSE Goto(d, IF variant = "current" THEN "getPullRequest" ELSE "getComments")
  /\ UNCHANGED << threads, threads0, variant, pullRequest, observed, hasTextComments,
                  entries, changes, llmOutcome, codeReviewResult, calls, history >>

\* part_000 53 with azureDevOpsService.ts 185-211. The client returns the
\* pull request, returns null (not found) or throws; a request without a
\* pull-request ID finds nothing.
FetchPullRequest(d) ==
  /\ pc[d] = "getPullRequest"
  /\ Call(d, {"getPullRequest"})
  /\ \E r \in {"ok", "null", "fail"} :
       /\ r = "ok" => payload[d].pullRequestId
       /\ IF r = "fail"
          THEN /\ Catch(d, "UpstreamFetchFailed")
               /\ Failure(d, "getPullRequest")
               /\ UNCHANGED pullRequest
          ELSE /\ Goto(d, "getComments")
               /\ pullRequest' = [pullRequest EXCEPT ![d] = r]
               /\ UNCHANGED history
  /\ UNCHANGED << threads, threads0, variant, payload, observed, hasTextComments,
                  entries, changes, llmOutcome, codeReviewResult >>

\* The eligibility decision after a successful thread fetch:
\* part_000 56-69, pullRequestTrigger.ts 54-77.
Decide(d) ==
  /\ observed' = [observed EXCEPT ![d] = [fetched |-> TRUE, threads |-> threads]]
  /\ hasTextComments' = [hasTextComments EXCEPT ![d] = HasTextComments(variant, threads)]
  /\ IF HasTextComments(variant, threads)
     THEN Respond(d, 200, SkippedComments, "none")
     ELSE Goto(d, "getChanges")

\* The earlier build's thread fetch is addressed by the IDs of the payload:
\* without them the provider finds nothing.
ThreadFetchCanSucceed(d) ==
  variant = "earlier" => (payload[d].pullRequestId /\ payload[d].repositoryId)

\* Variation: the thread fetch swallows the error and returns no comments.
OnThreadFetchErrorSwallowed(d) ==
  /\ observed' = [observed EXCEPT ![d] = [fetched |-> TRUE, threads |-> << >>]]
  /\ UNCHANGED hasTextComments
  /\ Goto(d, "getChanges")

\* azureDevOpsService.ts 488-491: the error is logged and thrown again, and
\* the handler's catch block answers (part_000 89-96).
OnThreadFetchError(d) ==
  /\ Catch(d, "UpstreamFetchFailed")
  /\ UNCHANGED << observed, hasTextComments >>

\* part_000 56 with azureDevOpsService.ts 412-492 (a null pull request fails
\* the validation at 415 before any request); pullRequestTrigger.ts 54.
FetchComments(d) ==
  /\ pc[d] = "getComments"
  /\ IF variant = "current" /\ pullRequest[d] = "null"
     THEN /\ Catch(d, "UpstreamFetchFailed")
          /\ UNCHANGED << observed, hasTextComments, calls, history >>
     ELSE /\ Call(d, {"getThreads"})
          /\ \E ok \in BOOLEAN :
               /\ ok => ThreadFetchCanSucceed(d)
               /\ IF ok THEN Decide(d) /\ UNCHANGED history
                  ELSE OnThreadFetchError(d) /\ Failure(d, "getThreads")
  /\ UNCHANGED << threads, threads0, variant, payload, pullRequest,
                  entries, changes, llmOutcome, codeReviewResult >>

\* The requests one changed-files fetch issues for `e`.
ChangeRequests(e) == IF variant = "current" THEN BlobRequests(e) ELSE DetailRequests(e)

\* part_000 71 with azureDevOpsService.ts 272-381; pullRequestTrigger.ts 80.
\* The provider reports the entries e; the content requests in `failed` throw.
FetchChanges(d, E) ==
  /\ pc[d] = "getChanges"
  /\ \E r \in {"ok", "noIterations", "fail"} :
       /\ r = "noIterations" => variant = "current"
       /\ IF r # "ok"
          THEN /\ Catch(d, "UpstreamFetchFailed")
               /\ Call(d, {"getIterations"})
               /\ IF r = "fail" THEN Failure(d, "getIterations") ELSE UNCHANGED history
               /\ UNCHANGED << entries, changes >>
          ELSE \E e \in E :
                 \E failed \in SUBSET ChangeRequests(e) :
                   /\ entries' = [entries EXCEPT ![d] = e]
                   /\ changes' = [changes EXCEPT ![d] =
                                    IF variant = "current"
                                    THEN GetPullRequestChanges(e, failed)
                                    ELSE GetPullRequestDetails(e, failed)]
                   /\ calls' = [calls EXCEPT
                                  ![d]["getIterations"] = @ + 1,
                                  ![d]["getBlobContent"] = @ + Cardinality(ChangeRequests(e))]
                   /\ history' = [history EXCEPT ![d].failed = failed]
                   /\ Goto(d, "doCodeReview")
  /\ UNCHANGED << threads, threads0, variant, payload, pullRequest, observed,
                  hasTextComments, llmOutcome, codeReviewResult >>

\* Variation: the "no changes" notice is posted as a comment.
AfterReviewPostsNotice(d, result) ==
  /\ codeReviewResult' = [codeReviewResult EXCEPT ![d] = result]
  /\ IF PublishDecision(result)
     THEN Goto(d, "addComment") /\ UNCHANGED threads
     ELSE /\ Respond(d, 200, NoReview, "none")
          /\ threads' = CreateThread(threads, NoReview)

\* Variation: an empty result sends the run back to the changed-files fetch
\* (once).
AfterReviewRefetches(d, result) ==
  /\ codeReviewResult' = [codeReviewResult EXCEPT ![d] = result]
  /\ UNCHANGED threads
  /\ IF PublishDecision(result) THEN Goto(d, "addComment")
     ELSE IF calls[d]["getIterations"] < 2 THEN Goto(d, "getChanges")
     ELSE Respond(d, 200, NoReview, "none")

\* What the handler does with the result: part_000 76-88,
\* pullRequestTrigger.ts 85-97. Nothing is written to the provider here.
AfterReview(d, result) ==
  /\ codeReviewResult' = [codeReviewResult EXCEPT ![d] = result]
  /\ UNCHANGED threads
  /\ IF PublishDecision(result)
     THEN Goto(d, "addComment")
     ELSE Respond(d, 200, NoReview, "none")

\* part_000 74 with codeReviewService.ts 67-124; pullRequestTrigger.ts 83
\* with codeReviewService.ts 234-286.
Review(d, O) ==
  /\ pc[d] = "doCodeReview"
  /\ IF SkipsCompletion(changes[d])
     THEN /\ Call(d, {"doCodeReview"})
          /\ UNCHANGED llmOutcome
          /\ AfterReview(d, "")
     ELSE /\ Call(d, {"doCodeReview", "completion"})
          /\ \E o \in O :
               /\ llmOutcome' = [llmOutcome EXCEPT ![d] = o]
               /\ IF DoCodeReviewRaises(o)
                  THEN Catch(d, "ReviewGenerationFailed")
                       /\ UNCHANGED << codeReviewResult, threads >>
                  ELSE AfterReview(d, ReviewText(variant, o))
  /\ UNCHANGED << threads0, variant, payload, pullRequest, observed,
                  hasTextComments, entries, changes, history >>

\* Variation: a failed post is tried once more.
OnPublishErrorRetry(d) ==
  IF calls[d]["createThread"] = 0
  THEN Goto(d, "addComment")
  ELSE Catch(d, "UpstreamPublishFailed")

\* azureDevOpsService.ts 617-620: the error is thrown again; part_000 89-96
\* answers it. There is no second attempt.
OnPublishError(d) == Catch(d, "UpstreamPublishFailed")

\* part_000 78-82 with azureDevOpsService.ts 516-621; pullRequestTrigger.ts
\* 87-91, whose post writes the text it is given.
Publish(d) ==
  /\ pc[d] = "addComment"
  /\ IF variant = "current" /\ EmptyComment(codeReviewResult[d])
     THEN /\ Call(d, {"addComment"})
          /\ Respond(d, 200, Completed, "none")
          /\ history' = [history EXCEPT ![d].posted = "null"]
          /\ UNCHANGED threads
     ELSE /\ Call(d, {"addComment", "createThread"})
          /\ \E ok \in BOOLEAN :
               IF ok
               THEN /\ threads' = CreateThread(threads, codeReviewResult[d])
                    /\ Respond(d, 200, Completed, "none")
                    /\ history' = [history EXCEPT ![d].posted = "thread"]
               ELSE /\ OnPublishError(d)
                    /\ Failure(d, "createThread")
                    /\ UNCHANGED threads
  /\ UNCHANGED << threads0, variant, payload, pullRequest, observed, hasTextComments,
                  entries, changes, llmOutcome, codeReviewResult >>

\* One delivery, handled alone.
Next ==
  \/ Receive(1, Payloads)
  \/ FetchPullRequest(1)
  \/ FetchComments(1)
  \/ FetchChanges(1, EntryLists)
  \/ Review(1, LlmOutcomes)
  \/ Publish(1)

Spec == Init /\ [][Next]_vars

\* Every provider call returns or fails, and the runtime goes on with the
\* invocation: a step that can be taken is eventually taken.
\* Which step follows a step does not depend on how long the lists are, so
\* the runs are taken over pull requests with at most one thread and one
\* changed file.
LiveThreadLists == SeqsUpTo(ThreadShapes, 1)
LiveEntryLists == SeqsUpTo(FileShapes, 1)

InitLive ==
  /\ threads \in LiveThreadLists
  /\ threads0 = threads
  /\ variant \in Variants
  /\ InitLocals

NextLive ==
  \/ Receive(1, Payloads)
  \/ FetchPullRequest(1)
  \/ FetchComments(1)
  \/ FetchChanges(1, LiveEntryLists)
  \/ Review(1, LlmOutcomes)
  \/ Publish(1)

SpecLive == InitLive /\ [][NextLive]_vars /\ WF_vars(NextLive)


\* ------------------------------------------------ two deliveries at once
\* Two deliveries of the creation event for the same pull request, handled
\* by independent invocations that interleave at their awaits.
RaceThreadLists ==
  { << >>, << Thread(FALSE, << Comment("system", FALSE, "status update") >>) >> }
RacePayloads == { Payload(TRUE, CreatedEvent, TRUE, TRUE, TRUE) }
RaceEntryLists == { << Entry("a.ts", ".ts", "edit") >> }
RaceLlmOutcomes == { "ok", "networkError" }

InitRace ==
  /\ threads \in RaceThreadLists
  /\ threads0 = threads
  /\ variant \in Variants
  /\ InitLocals

NextRace ==
  \E d \in Deliveries :
    \/ Receive(d, RacePayloads)
    \/ FetchPullRequest(d)
    \/ FetchComments(d)
    \/ FetchChanges(d, RaceEntryLists)
    \/ Review(d, RaceLlmOutcomes)
    \/ Publish(d)

SpecRace == InitRace /\ [][NextRace]_vars


\* ------------------------------------------------------- the test script
\* test.ts runs the same service functions at top level, outside the
\* handler: it fetches the changed files before the threads, posts whatever
\* doCodeReview returned, and has no catch block, so a throw ends the run.
\* Delivery 1 stands for the one run of the script.
Exit(d) ==
  /\ pc' = [pc EXCEPT ![d] = "exited"]
  /\ UNCHANGED response

Crash(d) ==
  /\ pc' = [pc EXCEPT ![d] = "crashed"]
  /\ UNCHANGED response

\* test.ts 4
ScriptGetPullRequest(d) ==
  /\ pc[d] = "start"
  /\ Call(d, {"getPullRequest"})
  /\ \E r \in {"ok", "null", "fail"} :
       IF r = "fail"
       THEN Crash(d) /\ Failure(d, "getPullRequest") /\ UNCHANGED pullRequest
       ELSE /\ Goto(d, "getChanges")
            /\ pullRequest' = [pullRequest EXCEPT ![d] = r]
            /\ UNCHANGED history
  /\ UNCHANGED << threads, threads0, variant, payload, observed, hasTextComments,
                  entries, changes, llmOutcome, codeReviewResult >>

\* test.ts 5 with azureDevOpsService.ts 272-381 (a null pull request fails
\* the first test at 277).
ScriptGetChanges(d, E) ==
  /\ pc[d] = "getChanges"
  /\ IF pullRequest[d] = "null"
     THEN Crash(d) /\ UNCHANGED << entries, changes, calls, history >>
     ELSE \E r \in {"ok", "noIterations", "fail"} :
            IF r # "ok"
            THEN /\ Crash(d)
                 /\ Call(d, {"getIterations"})
                 /\ IF r = "fail" THEN Failure(d, "getIterations") ELSE UNCHANGED history
                 /\ UNCHANGED << entries, changes >>
            ELSE \E e \in E :
                   \E failed \in SUBSET BlobRequests(e) :
                     /\ entries' = [entries EXCEPT ![d] = e]
                     /\ changes' = [changes EXCEPT ![d] = GetPullRequestChanges(e, failed)]
                     /\ calls' = [calls EXCEPT
                                    ![d]["getIterations"] = @ + 1,
                                    ![d]["getBlobContent"] = @ + Cardinality(BlobRequests(e))]
                     /\ history' = [history EXCEPT ![d].failed = failed]
                     /\ Goto(d, "getComments")
  /\ UNCHANGED << threads, threads0, variant, payload, pullRequest, observed,
                  hasTextComments, llmOutcome, codeReviewResult >>

\* test.ts 7-9 and 14-16 with azureDevOpsService.ts 412-492
ScriptGetComments(d) ==
  /\ pc[d] = "getComments"
  /\ Call(d, {"getThreads"})
  /\ \E ok \in BOOLEAN :
       IF ok
       THEN /\ observed' = [observed EXCEPT ![d] = [fetched |-> TRUE, threads |-> threads]]
            /\ hasTextComments' = [hasTextComments EXCEPT
                                     ![d] = HasTextCommentsCurrent(threads)]
            /\ IF HasTextCommentsCurrent(threads) THEN Exit(d) ELSE Goto(d, "doCodeReview")
            /\ UNCHANGED history
       ELSE /\ Crash(d)
            /\ Failure(d, "getThreads")
            /\ UNCHANGED << observed, hasTextComments >>
  /\ UNCHANGED << threads, threads0, variant, payload, pullRequest,
                  entries, changes, llmOutcome, codeReviewResult >>

\* test.ts 10 with codeReviewService.ts 67-124: the result is not tested.
ScriptReview(d, O) ==
  /\ pc[d] = "doCodeReview"
  /\ IF SkipsCompletion(changes[d])
     THEN /\ Call(d, {"doCodeReview"})
          /\ UNCHANGED llmOutcome
          /\ codeReviewResult' = [codeReviewResult EXCEPT ![d] = ""]
     ELSE /\ Call(d, {"doCodeReview", "completion"})
          /\ \E o \in O :
               /\ llmOutcome' = [llmOutcome EXCEPT ![d] = o]
               /\ codeReviewResult' = [codeReviewResult EXCEPT ![d] = ReviewTextCurrent(o)]
  /\ Goto(d, "addComment")
  /\ UNCHANGED << threads, threads0, variant, payload, pullRequest, observed,
                  hasTextComments, entries, changes, history >>

\* test.ts 12 with azureDevOpsService.ts 516-621
ScriptPost(d) ==
  /\ pc[d] = "addComment"
  /\ IF EmptyComment(codeReviewResult[d])
     THEN /\ Call(d, {"addComment"})
          /\ Exit(d)
          /\ history' = [history EXCEPT ![d].posted = "null"]
          /\ UNCHANGED threads
     ELSE /\ Call(d, {"addComment", "createThread"})
          /\ \E ok \in BOOLEAN :
               IF ok
               THEN /\ threads' = CreateThread(threads, codeReviewResult[d])
                    /\ Exit(d)
                    /\ history' = [history EXCEPT ![d].posted = "thread"]
               ELSE /\ Crash(d)
                    /\ Failure(d, "createThread")
                    /\ UNCHANGED threads
  /\ UNCHANGED << threads0, variant, payload, pullRequest, observed, hasTextComments,
                  entries, changes, llmOutcome, codeReviewResult >>

InitScript ==
  /\ threads \in ThreadLists
  /\ threads0 = threads
  /\ variant = "current"
  /\ InitLocals

NextScript ==
  \/ ScriptGetPullRequest(1)
  \/ ScriptGetChanges(1, EntryLists)
  \/ ScriptGetComments(1)
  \/ ScriptReview(1, LlmOutcomes)
  \/ ScriptPost(1)

SpecScript == InitScript /\ [][NextScript]_vars


\* ================================================================ claims
Done(d) == pc[d] = "done"

Reply(d, st, b) == response[d].status = st /\ response[d].body = b

\* The delivery has fetched the threads and a text comment that is not
\* deleted was among them.
SawLiveTextComment(d) ==
  /\ observed[d].fetched
  /\ \E i \in 1..Len(AllComments(observed[d].threads)) :
       /\ AllComments(observed[d].threads)[i].commentType = "text"
       /\ ~AllComments(observed[d].threads)[i].isDeleted

\* C1: a delivery that fetched the threads of a pull request with at least
\* one non-deleted text comment never calls the Review Generator, never
\* posts a comment, and answers 200 "already has comments".
C1_LiveTextCommentSkips ==
  \A d \in Deliveries :
    SawLiveTextComment(d) =>
      /\ calls[d]["doCodeReview"] = 0
      /\ calls[d]["completion"] = 0
      /\ calls[d]["addComment"] = 0
      /\ Reply(d, 200, SkippedComments)

\* The changed-files fetch of the delivery has returned.
FetchedChanges(d) == pc[d] \in {"doCodeReview", "addComment"} \/ calls[d]["doCodeReview"] > 0

\* C2 as written: for a pull request with zero threads and at least one
\* changed file, the run calls the Review Generator exactly once and, when
\* the result is non-empty, posts exactly once and returns "completed".
C2_ReviewedOnceAndCompleted ==
  \A d \in Deliveries :
    ( /\ Done(d)
      /\ observed[d].fetched /\ observed[d].threads = << >>
      /\ FetchedChanges(d) /\ Len(entries[d]) >= 1 ) =>
      /\ calls[d]["doCodeReview"] = 1
      /\ codeReviewResult[d] # "" =>
           /\ calls[d]["addComment"] = 1
           /\ Reply(d, 200, Completed)

\* C2 amended: as above, but the run returns "completed" when the post
\* succeeds and status 500 when the post fails.
C2_ReviewedOncePostedOnce ==
  \A d \in Deliveries :
    ( /\ Done(d)
      /\ observed[d].fetched /\ observed[d].threads = << >>
      /\ FetchedChanges(d) /\ Len(entries[d]) >= 1 ) =>
      /\ calls[d]["doCodeReview"] = 1
      /\ codeReviewResult[d] # "" =>
           /\ calls[d]["addComment"] = 1
           /\ calls[d]["createThread"] = 1
           /\ \/ Reply(d, 200, Completed) /\ threads = CreateThread(threads0, codeReviewResult[d])
              \/ /\ Reply(d, 500, ErrorBody)
                 /\ response[d].cause = "UpstreamPublishFailed"
                 /\ threads = threads0

C2_Witness ==
  /\ Done(1) /\ observed[1].fetched /\ observed[1].threads = << >>
  /\ Len(entries[1]) >= 1 /\ codeReviewResult[1] # ""
  /\ calls[1]["doCodeReview"] = 1 /\ calls[1]["addComment"] = 1
  /\ Reply(1, 200, Completed)

Completions == { d \in Deliveries : Done(d) /\ response[d].body = Completed }

\* C3: the eligibility check is no lock. Every delivery that passed it and
\* whose post succeeded has added a review thread of its own, whatever was
\* posted in between: the pull request carries one review per completed
\* delivery, and each of them had decided on zero blocking comments.
C3_OneReviewPerCompletion ==
  /\ Len(threads) = Len(threads0) + Cardinality(Completions)
  /\ \A d \in Completions : observed[d].fetched /\ ~hasTextComments[d]

\* Two deliveries both saw zero blocking comments and both published.
C3_Witness ==
  /\ Completions = {1, 2}
  /\ observed[1].threads = threads0 /\ observed[2].threads = threads0
  /\ ~hasTextComments[1] /\ ~hasTextComments[2]
  /\ Len(threads) = Len(threads0) + 2
  /\ threads[Len(threads)] = ReviewThread(codeReviewResult[2])
  /\ threads[Len(threads) - 1] = ReviewThread(codeReviewResult[1])

\* The same threads with every comment's content replaced by one text.
EraseContent(ths) ==
  [i \in 1..Len(ths) |->
     [ths[i] EXCEPT !.comments =
        [j \in 1..Len(ths[i].comments) |-> [ths[i].comments[j] EXCEPT !.content = "text"]]]]

\* Every comment is of a system kind or deleted.
OnlySystemOrDeleted(ths) ==
  \A i \in 1..Len(AllComments(ths)) :
    AllComments(ths)[i].commentType # "text" \/ AllComments(ths)[i].isDeleted

\* C4: a pull request whose comments are all system-generated or deleted is
\* never skipped as "already has comments", and the decision is the same
\* for the same kinds and deletion flags whatever the contents are.
C4_SystemCommentsNeverBlock ==
  \A d \in Deliveries :
    observed[d].fetched =>
      /\ OnlySystemOrDeleted(observed[d].threads) => response[d].body # SkippedComments
      /\ hasTextComments[d] = HasTextComments(variant, EraseContent(observed[d].threads))

\* C5: an event of another type is answered 200 "ignored" and no call goes
\* to the repository provider or the completion provider.
C5_OtherEventsIgnored ==
  \A d \in Deliveries :
    (payload[d].json /\ payload[d].eventType # CreatedEvent) =>
      /\ Done(d)
      /\ Reply(d, 200, Ignored)
      /\ calls[d] = ZeroCalls

C5_Witness ==
  /\ Done(1) /\ payload[1].json /\ payload[1].eventType = "git.push" /\ payload[1].resource
  /\ Reply(1, 200, Ignored)

\* The run ended before the publish step.
StoppedEarly(d) ==
  /\ Done(d)
  /\ \/ response[d].body \in {Ignored, SkippedComments, NoReview}
     \/ response[d].cause \in {"InvalidPayload", "UpstreamFetchFailed"}

\* C6: only a post changes the provider: the threads differ from the
\* threads before the delivery only if createThread was called, and a run
\* that stopped before the publish step has left them as they were.
C6_OnlyPublishWrites ==
  /\ threads # threads0 => calls[1]["createThread"] = 1
  /\ StoppedEarly(1) => threads = threads0

C6_Witness ==
  /\ StoppedEarly(1) /\ response[1].body = NoReview
  /\ calls[1]["completion"] = 1 /\ threads0 # << >> /\ threads = threads0

\* doCodeReview has returned to the handler.
ReviewReturned(d) ==
  calls[d]["doCodeReview"] > 0 /\ response[d].cause # "ReviewGenerationFailed"

\* C7: when the Review Generator returns the empty string, nothing is
\* posted and the answer is 200 with the "no review" body.
C7_EmptyReviewSkips ==
  \A d \in Deliveries :
    (ReviewReturned(d) /\ codeReviewResult[d] = "") =>
      /\ calls[d]["addComment"] = 0
      /\ calls[d]["createThread"] = 0
      /\ Reply(d, 200, NoReview)

C7_Witness ==
  /\ ReviewReturned(1) /\ codeReviewResult[1] = "" /\ llmOutcome[1] \in LlmFailures
  /\ Reply(1, 200, NoReview) /\ threads = threads0

\* C8: for a pull request with zero changed files the completion provider
\* is never called, nothing is posted, and the answer is the "no changes"
\* skip.
C8_NoChangesSkips ==
  \A d \in Deliveries :
    (FetchedChanges(d) /\ entries[d] = << >>) =>
      /\ calls[d]["completion"] = 0
      /\ calls[d]["addComment"] = 0
      /\ calls[d]["createThread"] = 0
      /\ Done(d) => Reply(d, 200, NoReview)

C8_Witness ==
  /\ Done(1) /\ FetchedChanges(1) /\ entries[1] = << >>
  /\ calls[1]["doCodeReview"] = 1 /\ Reply(1, 200, NoReview)

\* C9: the Review Generator raises nothing: a failed completion request
\* gives the empty string, a good one the first completion's text; so a
\* failure of the completion provider gives no 500 and no posted comment.
C9_GeneratorDegradesToEmpty ==
  \A d \in Deliveries :
    /\ llmOutcome[d] \in LlmFailures =>
         /\ codeReviewResult[d] = ""
         /\ response[d].status # 500
         /\ calls[d]["addComment"] = 0
         /\ calls[d]["createThread"] = 0
    /\ llmOutcome[d] = "ok" => codeReviewResult[d] = ReviewBody

\* C10: a finished run answers 200 exactly for ignored, skipped and
\* completed, and 500 exactly for an unparsable payload or a failed fetch
\* or publish; there is no other status, and an unfinished run has not
\* answered.
C10_StatusByOutcome ==
  \A d \in Deliveries :
    /\ ~Done(d) => response[d] = NoResponse
    /\ Done(d) =>
         /\ response[d].status \in {200, 500}
         /\ response[d].status = 200 <=>
              /\ response[d].body \in {Ignored, SkippedComments, NoReview, Completed}
              /\ response[d].cause = "none"
         /\ response[d].status = 500 <=>
              /\ response[d].body = ErrorBody
              /\ response[d].cause \in
                   {"InvalidPayload", "UpstreamFetchFailed", "UpstreamPublishFailed"}

C10_Witness ==
  /\ Done(1) /\ Reply(1, 500, ErrorBody)
  /\ response[1].cause = "UpstreamPublishFailed"
  /\ calls[1]["createThread"] = 1

\* ---- fields of a FileChange, whichever build produced it
FilePathOf(c) == IF "fileName" \in DOMAIN c THEN c.fileName ELSE c.path

ContentOf(c) == IF "changeContent" \in DOMAIN c THEN c.changeContent ELSE c.content

NoContent(c) == ContentOf(c) \in {"", "null"}

HasErrorMarker(c) == "error" \in DOMAIN c /\ c.error

\* C11: when the content request of one changed file fails, the fetch of the
\* changed files still returns: the failing file is in the list with no
\* content and an error marker, and every other requested file is in the
\* list with its content. Stated for the build whose fetch is
\* getPullRequestChanges.
C11_FailedFileKeptWithMarker ==
  \A d \in Deliveries :
    (variant = "current" /\ FetchedChanges(d)) =>
      \A i \in BlobRequests(entries[d]) :
        \E k \in 1..Len(changes[d]) :
          /\ FilePathOf(changes[d][k]) = entries[d][i].path
          /\ IF i \in history[d].failed
             THEN NoContent(changes[d][k]) /\ HasErrorMarker(changes[d][k])
             ELSE ContentOf(changes[d][k]) = BlobOf(entries[d][i])
                  /\ ~HasErrorMarker(changes[d][k])

\* The three fetches whose failure ends the run.
FetchNames == {"getPullRequest", "getThreads", "getIterations"}

NothingAfter(d, names) == \A c \in names : calls[d][c] = 0

\* C12: when the pull-request fetch, the thread fetch or the changed-files
\* fetch fails, the run ends at once with status 500: no step after the
\* failing one is executed, the Review Generator is not called and nothing
\* is posted.
C12_FetchFailureStops ==
  \A d \in Deliveries :
    history[d].failures \cap FetchNames # {} =>
      /\ Done(d)
      /\ Reply(d, 500, ErrorBody)
      /\ response[d].cause = "UpstreamFetchFailed"
      /\ NothingAfter(d, {"doCodeReview", "completion", "addComment", "createThread"})
      /\ history[d].posted = "none"
      /\ threads = threads0
      /\ "getPullRequest" \in history[d].failures =>
           NothingAfter(d, {"getThreads", "getIterations", "getBlobContent"})
      /\ "getThreads" \in history[d].failures =>
           NothingAfter(d, {"getIterations", "getBlobContent"})

C12_Witness ==
  /\ Done(1)
  /\ "getIterations" \in history[1].failures
  /\ calls[1]["getThreads"] = 1
  /\ response[1].status = 500

\* A creation event that lacks the resource (or its repository or project
\* object), the pull-request ID or the repository ID.
Malformed(p) ==
  /\ p.json
  /\ p.eventType = CreatedEvent
  /\ ~p.resource \/ ~p.pullRequestId \/ ~p.repositoryId

\* C13: a creation event with a malformed payload is answered with status
\* 500 for an invalid payload, and no call is made to the repository
\* provider or to the completion provider.
C13_MalformedPayloadRejected ==
  \A d \in Deliveries :
    (pc[d] # "start" /\ Malformed(payload[d])) =>
      /\ calls[d] = ZeroCalls
      /\ Done(d) => Reply(d, 500, ErrorBody) /\ response[d].cause = "InvalidPayload"

\* The eligibility decision of delivery d has been made and lets the run go on.
DecidedEligible(d) == observed[d].fetched /\ ~hasTextComments[d]

\* C14: the steps of a run occur in one order: pull-request fetch, thread
\* fetch, eligibility decision, changed-files fetch, Review Generator, post.
\* No changed file is fetched and the completion provider is not called
\* before the decision, and the generator starts only after the
\* changed-files fetch (with every content request) has ended.
C14_FixedOrder ==
  \A d \in Deliveries :
    /\ calls[d]["getThreads"] > 0 => calls[d]["getPullRequest"] > 0
    /\ calls[d]["getIterations"] > 0 => DecidedEligible(d)
    /\ calls[d]["getBlobContent"] > 0 => DecidedEligible(d)
    /\ calls[d]["completion"] > 0 => DecidedEligible(d)
    /\ calls[d]["doCodeReview"] > 0 =>
         calls[d]["getIterations"] > 0 /\ pc[d] # "getChanges"
    /\ calls[d]["addComment"] > 0 => calls[d]["doCodeReview"] > 0

\* The requests the claim counts.
OnceNames == {"getPullRequest", "getThreads", "completion", "addComment", "createThread"}

\* C15: nothing is retried within one run. The pull-request fetch, the
\* thread fetch, the completion request and the post are each issued at
\* most once, also when they fail; a failed post ends the run with status
\* 500 for a publish failure after that one attempt.
C15_NoRetry ==
  \A d \in Deliveries :
    /\ \A c \in OnceNames : calls[d][c] <= 1
    /\ "createThread" \in history[d].failures =>
         /\ Done(d)
         /\ Reply(d, 500, ErrorBody)
         /\ response[d].cause = "UpstreamPublishFailed"
         /\ calls[d]["createThread"] = 1
         /\ threads = threads0

C15_Witness ==
  /\ Done(1)
  /\ "createThread" \in history[1].failures
  /\ calls[1]["completion"] = 1
  /\ calls[1]["createThread"] = 1

\* Delivery d fetched the threads after a review had been posted.
SawPostedReview(d) ==
  /\ observed[d].fetched
  /\ Len(observed[d].threads) > Len(threads0)

\* C16: a run that fetches the threads after another run's review was posted
\* finds a blocking comment and skips: it answers 200 "already has
\* comments", fetches no changed files, calls no generator and posts
\* nothing. Hence two reviews on one pull request need two runs that both
\* fetched the threads before either posted.
C16_LaterRunSkips ==
  /\ \A d \in Deliveries :
       SawPostedReview(d) =>
         /\ hasTextComments[d]
         /\ Done(d)
         /\ Reply(d, 200, SkippedComments)
         /\ NothingAfter(d, {"getIterations", "getBlobContent", "doCodeReview",
                             "completion", "addComment", "createThread"})
  /\ Len(threads) <= Len(threads0) + 2
  /\ Len(threads) = Len(threads0) + 2 =>
       \A d \in Deliveries : observed[d].fetched /\ observed[d].threads = threads0

C16_Witness ==
  /\ history[1].posted = "thread"
  /\ Done(1)
  /\ SawPostedReview(2)
  /\ Done(2)
  /\ Len(threads) = Len(threads0) + 1

\* azureDevOpsService.ts 336-338: the entry passes the extension filter.
Recognized(entry) ==
  entry.path # NoPath /\ identifyFileLanguage(entry).isProgrammingFile

RecognizedPaths(es) ==
  LET kept == SelectSeq(es, Recognized)
  IN  [k \in 1..Len(kept) |-> kept[k].path]

PathsOf(cs) == [k \in 1..Len(cs) |-> FilePathOf(cs[k])]

\* C17: a changed file whose extension is not recognized is left out of the
\* list given to the Review Generator and does not stop the review: the
\* generator receives exactly the recognized files, in the provider's order,
\* and when there is at least one it calls the completion provider. Stated
\* for the build whose fetch is getPullRequestChanges.
C17_ExactlyRecognizedFiles ==
  \A d \in Deliveries :
    (variant = "current" /\ calls[d]["doCodeReview"] > 0) =>
      /\ PathsOf(changes[d]) = RecognizedPaths(entries[d])
      /\ RecognizedPaths(entries[d]) # << >> => calls[d]["completion"] = 1

\* The handler's steps in the order of its text.
Rank(step) ==
  CASE step = "start" -> 0
    [] step = "getPullRequest" -> 1
    [] step = "getComments" -> 2
    [] step = "getChanges" -> 3
    [] step = "doCodeReview" -> 4
    [] step = "addComment" -> 5
    [] step = "done" -> 6

\* One step of a delivery moves it to a later step, answers at most once and
\* only when it ends, and leaves a given answer as it is.
StepsForward ==
  \A d \in Deliveries :
    /\ pc'[d] # pc[d] => Rank(pc'[d]) > Rank(pc[d])
    /\ calls'[d] # calls[d] => pc'[d] # pc[d]
    /\ response'[d] # response[d] =>
         /\ response[d] = NoResponse
         /\ pc'[d] = "done"
         /\ response'[d].status \in {200, 500}
    /\ (pc'[d] = "done" /\ pc[d] # "done") => response'[d] # NoResponse

\* C18: every invocation terminates with exactly one response, provided
\* every provider call returns or fails: each step leads to a later step or
\* to the answer (200 or 500), no step is taken twice, and the run
\* eventually stays done with its one answer.
C18_Terminates ==
  /\ [][StepsForward]_vars
  /\ <>[](Done(1) /\ response[1].status \in {200, 500})

C18_Witness ==
  /\ Done(1)
  /\ calls[1]["createThread"] = 1
  /\ response[1].status = 200
  /\ history[1].posted = "thread"

\* The threads written since the run began.
PostedThreads == { i \in 1..Len(threads) : i > Len(threads0) }

RECURSIVE LiveEntries(_)
LiveEntries(es) ==
  IF es = << >> THEN 0
  ELSE (IF Head(es).changeType # "delete" THEN 1 ELSE 0) + LiveEntries(Tail(es))

\* C20: in every list of changed files a fetch returns, an entry whose change
\* kind is 'deleted' carries no content, and no content request is issued
\* for a deleted file.
C20_DeletedFilesNotFetched ==
  \A d \in Deliveries :
    /\ \A k \in 1..Len(changes[d]) :
         changes[d][k].changeType = "delete" => NoContent(changes[d][k])
    /\ calls[d]["getBlobContent"] <= LiveEntries(entries[d])

C20_Witness ==
  /\ calls[1]["doCodeReview"] = 1
  /\ Len(changes[1]) = 2
  /\ changes[1][1].changeType = "delete"
  /\ changes[1][2].changeType = "edit"
  /\ calls[1]["getBlobContent"] = 1

=============================================================================
